---------------------------- MODULE Spec2Model ----------------------------
(***************************************************************************)
(* Model of the two monitors of MavNode/blocktime:                         *)
(*   src/btlive.py            - live block-time monitor (sliding window)   *)
(*   src/diagnose_proposer.py - per-proposer diagnostics                   *)
(*                                                                         *)
(* Times are integer milliseconds.  A duration (per_block, the sums, min   *)
(* and max) is an exact rational <<numerator, denominator>> in lowest      *)
(* terms, so delta_total / blocks_advanced is the true quotient, never a   *)
(* truncated one; float("inf") is <<1, 0>>.  Floating-point rounding of    *)
(* the Python floats is not represented.                                   *)
(***************************************************************************)
EXTENDS Integers, Sequences, FiniteSets, TLC

\* ------------------------------------------------------------------------
\* Program constants
\* ------------------------------------------------------------------------
WINDOW == 50

FAST_THRESHOLD == 700

FAIL_THRESHOLD == 5000

VALIDATORSET_REFRESH_EVERY == 200

SAMPLE_MAX == 200

LIVE_FAST_LIMIT == 600

LIVE_FASTER_LIMIT == 500

VALCONS_PREFIX == "shidovalcons"

\* ord(x) for the characters of VALCONS_PREFIX
PrefixCodes == <<115, 104, 105, 100, 111, 118, 97, 108, 99, 111, 110, 115>>

CHARSET ==
  << "q", "p", "z", "r", "y", "9", "x", "8", "g", "f", "2", "t", "v", "d", "w", "0",
     "s", "3", "j", "n", "5", "4", "k", "h", "c", "e", "6", "m", "u", "a", "7", "l" >>

\* Python's None for last_height, last_time and last_valset_height
None == -1

\* ------------------------------------------------------------------------
\* Bounds of the model
\* ------------------------------------------------------------------------
\* how many block queries of one session may return something unusual
MaxUnusualBlocks == 1

\* ------------------------------------------------------------------------
\* Exact rational arithmetic for the float durations
\* ------------------------------------------------------------------------
RECURSIVE GCD(_, _)
GCD(a, b) == IF b = 0 THEN a ELSE GCD(b, a % b)

Abs(x) == IF x < 0 THEN -x ELSE x

Rat(n, d) ==
  LET g == GCD(Abs(n), d) IN IF g = 0 THEN <<n, d>> ELSE <<n \div g, d \div g>>

Zero == <<0, 1>>

Inf == <<1, 0>>

Millis(n) == <<n, 1>>

RAdd(x, y) ==
  LET l == (x[2] \div GCD(x[2], y[2])) * y[2]
  IN  Rat(x[1] * (l \div x[2]) + y[1] * (l \div y[2]), l)

RSub(x, y) == RAdd(x, <<-y[1], y[2]>>)

RLe(x, y) == x[1] * y[2] <= y[1] * x[2]

RLt(x, y) == x[1] * y[2] < y[1] * x[2]

RMin(x, y) == IF RLt(y, x) THEN y ELSE x

\* the maximum taken to be the latest value
RMaxLatest(x, y) == y

RMax(x, y) == IF RLt(x, y) THEN y ELSE x

RTimes(k, x) == Rat(k * x[1], x[2])

RECURSIVE RSumRange(_, _, _)
\* the sum of s[lo..hi], by halves
RSumRange(s, lo, hi) ==
  IF lo > hi THEN Zero
  ELSE IF lo = hi THEN s[lo]
  ELSE CHOOSE r \in { RAdd(a, b) : a \in {RSumRange(s, lo, (lo + hi) \div 2)},
                                   b \in {RSumRange(s, ((lo + hi) \div 2) + 1, hi)} } : TRUE

\* ------------------------------------------------------------------------
\* bech32 (diagnose_proposer.py lines 23-75)
\* ------------------------------------------------------------------------
Pow2(n) == 2 ^ n

\* a ^ b, on 1, 2, 4, 8, 16 and 32 bits
Xor1(a, b) == ((a % 2) + (b % 2)) % 2

Xor2(a, b) == Xor1(a \div 2, b \div 2) * 2 + Xor1(a % 2, b % 2)

Xor4(a, b) == Xor2(a \div 4, b \div 4) * 4 + Xor2(a % 4, b % 4)

Xor8(a, b) == Xor4(a \div 16, b \div 16) * 16 + Xor4(a % 16, b % 16)

Xor16(a, b) == Xor8(a \div 256, b \div 256) * 256 + Xor8(a % 256, b % 256)

Xor(a, b) == Xor16(a \div 65536, b \div 65536) * 65536 + Xor16(a % 65536, b % 65536)

Shr(x, n) == x \div Pow2(n)

GEN == <<996825010, 642813549, 513874426, 1027748829, 705979059>>

\* "chk ^= GEN[i] if ((b >> i) & 1) else 0" for i = k - 1
PolymodGen(chk, b, k) == IF Shr(b, k - 1) % 2 = 1 THEN Xor(chk, GEN[k]) ELSE chk

\* the loop "for i in range(5)"; every intermediate chk is bound as a value
\* before the next XOR reads it
PolymodGens(c0, b) ==
  CHOOSE r \in
    { PolymodGen(c4, b, 5) :
        c4 \in { PolymodGen(c3, b, 4) :
          c3 \in { PolymodGen(c2, b, 3) :
            c2 \in { PolymodGen(c1, b, 2) :
              c1 \in { PolymodGen(c, b, 1) : c \in {c0} } } } } } : TRUE

\* one iteration of "for v in values" (lines 30-33)
PolymodStep(chk, v) ==
  CHOOSE r \in { PolymodGens(Xor((c % Pow2(25)) * 32, v), Shr(c, 25) % 256) :
                   c \in {chk} } : TRUE

\* the loop "for v in values" over values[lo..hi], by halves; the checksum of
\* the first half is bound as a value before the second half starts
RECURSIVE PolymodFrom(_, _, _, _)
PolymodFrom(chk, values, lo, hi) ==
  IF lo > hi THEN chk
  ELSE IF lo = hi THEN PolymodStep(chk, values[lo])
  ELSE LET mid == (lo + hi) \div 2
       IN  CHOOSE r \in { PolymodFrom(left, values, mid + 1, hi) :
                            left \in {PolymodFrom(chk, values, lo, mid)} } : TRUE

bech32_polymod(values) == PolymodFrom(1, values, 1, Len(values))

bech32_hrp_expand(hrp) ==
  [k \in 1..Len(hrp) |-> Shr(hrp[k], 5)] \o <<0>> \o [k \in 1..Len(hrp) |-> hrp[k] % 32]

\* the checksum without the final "^ 1"
bech32_create_checksumPlain(hrp, data) ==
  LET values  == bech32_hrp_expand(hrp) \o data
      polymod == bech32_polymod(values \o <<0, 0, 0, 0, 0, 0>>)
  IN  [k \in 1..6 |-> Shr(polymod, 5 * (6 - k)) % 32]

bech32_create_checksum(hrp, data) ==
  LET values  == bech32_hrp_expand(hrp) \o data
      polymod == Xor(bech32_polymod(values \o <<0, 0, 0, 0, 0, 0>>), 1)
  IN  [k \in 1..6 |-> Shr(polymod, 5 * (6 - k)) % 32]

bech32_encode(hrp, data) ==
  LET combined == data \o bech32_create_checksum(hrp, data)
  IN  <<VALCONS_PREFIX, "1">> \o [k \in 1..Len(combined) |-> CHARSET[combined[k] + 1]]

\* The accumulator keeps its low 13 bits: with frombits 8 and tobits 5 fewer than
\* 5 bits are pending before a byte is added, so no higher bit is ever read.
RECURSIVE ConvertDrain(_, _, _, _)
ConvertDrain(acc, bits, ret, tobits) ==
  IF bits >= tobits
    THEN ConvertDrain(acc, bits - tobits,
                      Append(ret, Shr(acc, bits - tobits) % Pow2(tobits)), tobits)
    ELSE <<acc, bits, ret>>

\* the loop "for value in data" from data[k] on; each byte's result is bound as
\* a value before the next byte is read
RECURSIVE ConvertFrom(_, _, _, _, _, _, _)
ConvertFrom(data, k, acc, bits, ret, frombits, tobits) ==
  IF k > Len(data)
    THEN <<TRUE, acc, bits, ret>>
    ELSE IF data[k] < 0 \/ Shr(data[k], frombits) # 0
      THEN <<FALSE, acc, bits, ret>>
      ELSE CHOOSE r \in
             { ConvertFrom(data, k + 1, d[1], d[2], d[3], frombits, tobits) :
                 d \in { ConvertDrain((acc * Pow2(frombits) + data[k])
                                        % Pow2(frombits + tobits),
                                      bits + frombits, ret, tobits) } } : TRUE

\* convertbits(data, frombits, tobits, pad): <<ok, ret>>, ok = FALSE for None
convertbits(data, frombits, tobits, pad) ==
  LET r    == ConvertFrom(data, 1, 0, 0, <<>>, frombits, tobits)
      acc  == r[2]
      bits == r[3]
      ret  == r[4]
      maxv == Pow2(tobits) - 1
      last == (acc * Pow2(tobits - bits)) % Pow2(tobits)
  IN  IF ~r[1] THEN <<FALSE, <<>>>>
      ELSE IF pad
        THEN <<TRUE, IF bits # 0 THEN Append(ret, last) ELSE ret>>
        ELSE IF bits >= frombits \/ last # 0 THEN <<FALSE, <<>>>> ELSE <<TRUE, ret>>

bytes20_to_valcons(addr20) ==
  bech32_encode(PrefixCodes, convertbits(addr20, 8, 5, TRUE)[2])


\* ------------------------------------------------------------------------
\* The environment: what the node's CLI can answer
\* ------------------------------------------------------------------------
\* raw 20-byte proposer addresses of three validators
AddrA == [k \in 1..20 |-> k]

AddrB == [k \in 1..20 |-> 170]

AddrC == [k \in 1..20 |-> 256 - k]

RawAddresses == {AddrA, AddrB, AddrC}

\* bytes20_to_valcons on the addresses of the chain, each computed once
ValconsA == bytes20_to_valcons(AddrA)

ValconsB == bytes20_to_valcons(AddrB)

ValconsC == bytes20_to_valcons(AddrC)

ValconsTable == [a \in RawAddresses |->
                   IF a = AddrA THEN ValconsA ELSE IF a = AddrB THEN ValconsB ELSE ValconsC]

UNKNOWN == <<"unknown">>

\* "shidod status": the query fails, the reply cannot be decoded, or it carries
\* latest_block_height and latest_block_time (milliseconds)
StatusReplies ==
  { [kind |-> "fetch_failed", height |-> 0, ts |-> 0],
    [kind |-> "bad_height",   height |-> 0, ts |-> 0],
    [kind |-> "bad_time",     height |-> 101, ts |-> 0],
    [kind |-> "ok", height |-> 100, ts |-> 0],
    [kind |-> "ok", height |-> 101, ts |-> 0],
    [kind |-> "ok", height |-> 101, ts |-> 5000],
    [kind |-> "ok", height |-> 103, ts |-> 3000],
    [kind |-> "ok", height |-> 303, ts |-> 143000] }

\* "shidod query block": the block the chain holds at height h; validator B
\* proposed block 101, C (in no validator set with a key) block 102, A the others
ChainBlock(h) ==
  [kind |-> "address",
   bytes |-> IF h = 101 THEN AddrB ELSE IF h = 102 THEN AddrC ELSE AddrA]

\* ... and the unusual answers: a failed query, a reply without header, a header
\* without proposer_address, base64 that does not decode, 19 or 21 bytes
UnusualBlocks ==
  { [kind |-> "fetch_failed", bytes |-> <<>>],
    [kind |-> "no_header",    bytes |-> <<>>],
    [kind |-> "no_proposer",  bytes |-> <<>>],
    [kind |-> "bad_base64",   bytes |-> <<>>],
    [kind |-> "address",      bytes |-> [k \in 1..19 |-> k]],
    [kind |-> "address",      bytes |-> [k \in 1..21 |-> k]] }

ValItem(a, k, p) == [address |-> a, pub_key |-> k, voting_power |-> p]

\* "shidod query tendermint-validator-set": a missing address is the empty
\* string <<>>, a missing key is ""
ValsetA ==
  << ValItem(ValconsTable[AddrA], "pkA", 10),
     ValItem(ValconsTable[AddrB], "pkB", 5),
     ValItem(<<>>, "pkX", 1),
     ValItem(ValconsTable[AddrC], "", 1) >>

ValsetB ==
  << ValItem(ValconsTable[AddrB], "pkB2", 6) >>

\* the validator set changes at height 200; the query for height h fails or
\* returns the set of that height
ValsetReplies(h) ==
  { [ok |-> FALSE, validators |-> <<>>],
    [ok |-> TRUE,  validators |-> IF h < 200 THEN ValsetA ELSE ValsetB] }

StakingItem(m, k) == [moniker |-> m, pk |-> k]

\* "shidod query staking validators": monikers are sequences of characters
StakingA ==
  << StakingItem(<<" ", "A", "l", " ">>, "pkA"),
     StakingItem(<<" ">>, "pkB"),
     StakingItem(<<"B", "o">>, ""),
     StakingItem(<<"B", "e">>, "pkB"),
     StakingItem(<<"A", "2">>, "pkA") >>

StakingReplies ==
  { [ok |-> FALSE, validators |-> <<>>],
    [ok |-> TRUE,  validators |-> StakingA] }

\* ------------------------------------------------------------------------
\* State
\* ------------------------------------------------------------------------
VARIABLES
  program,            \* which script runs: "btlive" or "diagnose"
  pc,                 \* "poll", "loop" (btlive), "block", "stats", "stopped", "crashed"
  status,             \* kind of the last status reply
  height, ts,         \* height and time of the last decoded status
  last_height, last_time,
  blocks_advanced, delta_total, per_block,
  i,                  \* loop index of the per-height loop
  total_blocks, total_time, fast_blocks,
  block_times, window_sum, min_bt, max_bt, faster_blocks,     \* btlive.py
  fail_blocks, pubkey_to_moniker, valcons_map, last_valset_height,
  stats, blk, valcons, label,                                 \* diagnose_proposer.py
  out,                \* heights of the lines printed in this tick, in order
  out_durations,      \* the durations those lines carry, as a set
  summary,            \* the final summaries printed
  tick_kind,          \* what the last poll did
  tick_refreshes,     \* refresh_valset calls of the last poll
  refresh_result,     \* "none", "failed" or "ok": the call's outcome
  vlist,              \* the validator list the last successful call received
  unusual_blocks,     \* unusual block replies so far
  live_log,           \* btlive.py: every duration recorded so far, in arrival order
  sv,                 \* the reply of the staking query at startup
  global_log,         \* diagnose_proposer.py: the durations counted globally, as runs
  scope_log,          \* ... and those recorded per proposer: runs <<duration, n>>
  max_recorded,       \* the highest height recorded so far
  baseline_height,    \* the height of the baseline
  anomaly_heights,    \* the heights dropped for non-positive elapsed time
  pct_call,           \* percentile_from_samples: the arguments [samples, p]
  pct_result,         \* ... and what it returned
  stats_order         \* the keys of stats in the order the dict holds them

vars ==
  << program, pc, status, height, ts, last_height, last_time, blocks_advanced,
     delta_total, per_block, i, total_blocks, total_time, fast_blocks,
     block_times, window_sum, min_bt, max_bt, faster_blocks, fail_blocks,
     pubkey_to_moniker, valcons_map, last_valset_height, stats, blk, valcons,
     label, out, out_durations, summary, tick_kind, tick_refreshes, refresh_result, vlist,
     unusual_blocks, live_log, sv, global_log, scope_log, max_recorded, baseline_height,
     anomaly_heights, pct_call, pct_result, stats_order >>

pctVars == << pct_call, pct_result >>

\* the history of the session, kept beside the program's own variables
logVars == << global_log, scope_log, max_recorded, baseline_height, anomaly_heights >>

liveVars == << block_times, window_sum, min_bt, max_bt, faster_blocks, live_log >>

diagVars ==
  << fail_blocks, pubkey_to_moniker, valcons_map, last_valset_height, stats,
     blk, valcons, label, tick_refreshes, refresh_result, vlist, unusual_blocks, sv >>

overallVars == << total_blocks, total_time, fast_blocks >>

EmptyMap == [x \in {} |-> 0]


\* ------------------------------------------------------------------------
\* Pure helpers of both scripts
\* ------------------------------------------------------------------------
\* d[k] = v on a dict
Put(d, k, v) == [x \in DOMAIN d \cup {k} |-> IF x = k THEN v ELSE d[x]]

\* a history of durations as runs <<duration, n>>: d is added to the last run
\* when that run has the same duration, else it starts a run
LogAppend(runs, d) ==
  IF runs # <<>> /\ runs[Len(runs)][1] = d
    THEN [runs EXCEPT ![Len(runs)] = << d, runs[Len(runs)][2] + 1 >>]
    ELSE Append(runs, << d, 1 >>)

\* the elapsed time charged whole to every height (no division)
AmortizedDurationWhole(delta, blocks) == Rat(delta, 1)

\* per_block = delta_total / blocks_advanced
AmortizedDuration(delta, blocks) == Rat(delta, blocks)

\* ---- btlive.py: the sliding window ----
\* the window with the eviction's subtraction left out
WindowPushNoSubtract(w, d) ==
  LET times == Append(w.times, d)
      total == RAdd(w.sum, d)
  IN  IF Len(times) > WINDOW
        THEN [times |-> Tail(times), sum |-> total]
        ELSE [times |-> times, sum |-> total]

\* block_times.append(per_block); window_sum += per_block;
\* if len(block_times) > WINDOW: window_sum -= block_times.popleft()
WindowPush(w, d) ==
  LET times == Append(w.times, d)
      total == RAdd(w.sum, d)
  IN  IF Len(times) > WINDOW
        THEN [times |-> Tail(times), sum |-> RSub(total, Head(times))]
        ELSE [times |-> times, sum |-> total]

\* ---- diagnose_proposer.py: the moniker index ----
IsSpace(c) == c = " "

RECURSIVE LStrip(_)
LStrip(m) == IF m # <<>> /\ IsSpace(Head(m)) THEN LStrip(Tail(m)) ELSE m

RECURSIVE RStrip(_)
RStrip(m) ==
  IF m # <<>> /\ IsSpace(m[Len(m)]) THEN RStrip(SubSeq(m, 1, Len(m) - 1)) ELSE m

Strip(m) == RStrip(LStrip(m))

\* an iteration that keeps the moniker a key already has
IndexStepFirst(index, v) ==
  LET moniker == Strip(v.moniker)
  IN  IF v.pk # "" /\ moniker # <<>> /\ v.pk \notin DOMAIN index
        THEN Put(index, v.pk, moniker)
        ELSE index

\* one iteration of "for v in vals" (lines 140-146)
IndexStep(index, v) ==
  LET moniker == Strip(v.moniker)
  IN  IF v.pk # "" /\ moniker # <<>> THEN Put(index, v.pk, moniker) ELSE index

RECURSIVE IndexFrom(_, _, _)
IndexFrom(index, vals, k) ==
  IF k > Len(vals) THEN index ELSE IndexFrom(IndexStep(index, vals[k]), vals, k + 1)

\* lines 136-149: the index of a snapshot, {} when the query failed
build_moniker_index(reply) ==
  IF reply.ok THEN IndexFrom(EmptyMap, reply.validators, 1) ELSE EmptyMap

\* ---- diagnose_proposer.py: the validator directory ----
\* one iteration of "for item in vlist" (lines 180-185)
ValsetStep(newmap, item) ==
  IF item.address # <<>> /\ item.pub_key # ""
    THEN Put(newmap, item.address,
             [pubkey_b64 |-> item.pub_key, power |-> item.voting_power])
    ELSE newmap

RECURSIVE ValsetFrom(_, _, _)
ValsetFrom(newmap, items, k) ==
  IF k > Len(items) THEN newmap
  ELSE ValsetFrom(ValsetStep(newmap, items[k]), items, k + 1)

\* a refresh that merges the snapshot into the previous table
refresh_valsetMerging(h, reply, oldmap, oldheight) ==
  IF reply.ok
    THEN [map |-> ValsetFrom(oldmap, reply.validators, 1), height |-> h,
          result |-> "ok", vlist |-> reply.validators]
    ELSE [map |-> oldmap, height |-> oldheight, result |-> "failed", vlist |-> <<>>]

\* a refresh whose failure clears the directory and still stamps the height
refresh_valsetClearing(h, reply, oldmap, oldheight) ==
  IF reply.ok
    THEN [map |-> ValsetFrom(EmptyMap, reply.validators, 1), height |-> h,
          result |-> "ok", vlist |-> reply.validators]
    ELSE [map |-> EmptyMap, height |-> h, result |-> "failed", vlist |-> <<>>]

\* refresh_valset(h) inside try/except: the directory after the call
refresh_valset(h, reply, oldmap, oldheight) ==
  IF reply.ok
    THEN [map |-> ValsetFrom(EmptyMap, reply.validators, 1), height |-> h,
          result |-> "ok", vlist |-> reply.validators]
    ELSE [map |-> oldmap, height |-> oldheight, result |-> "failed", vlist |-> <<>>]

\* the refresh test with a strict comparison
NeedsRefreshStrict(lvh, h) == lvh = None \/ h - lvh > VALIDATORSET_REFRESH_EVERY

\* line 214
NeedsRefresh(lvh, h) == lvh = None \/ h - lvh >= VALIDATORSET_REFRESH_EVERY

\* the scope of a block reply without the length test of line 235
ResolveValconsNoLengthCheck(b) ==
  IF b.kind = "address"
    THEN IF b.bytes \in RawAddresses THEN ValconsTable[b.bytes]
         ELSE bytes20_to_valcons(b.bytes)
    ELSE UNKNOWN

\* lines 223-238: the scope of a block reply
ResolveValcons(b) ==
  IF b.kind = "address" /\ Len(b.bytes) = 20 THEN ValconsTable[b.bytes] ELSE UNKNOWN

\* line 244: f"{moniker} ({valcons})" if moniker else valcons
FormatLabel(moniker, v) ==
  IF moniker # <<>> THEN moniker \o << " ", "(" >> \o v \o << ")" >> ELSE v

\* a resolution that prints "unknown" whenever a lookup misses
ResolveLabelUnknownOnMiss(v, vmap, index) ==
  LET pubkey  == IF v \in DOMAIN vmap THEN vmap[v].pubkey_b64 ELSE ""
      moniker == IF pubkey # "" /\ pubkey \in DOMAIN index THEN index[pubkey] ELSE <<>>
  IN  [moniker |-> moniker, valcons |-> v,
       text |-> IF moniker # <<>> THEN FormatLabel(moniker, v) ELSE UNKNOWN]

\* lines 240-244
ResolveLabel(v, vmap, index) ==
  LET pubkey  == IF v \in DOMAIN vmap THEN vmap[v].pubkey_b64 ELSE ""
      moniker == IF pubkey # "" /\ pubkey \in DOMAIN index THEN index[pubkey] ELSE <<>>
  IN  [moniker |-> moniker, valcons |-> v, text |-> FormatLabel(moniker, v)]

\* ---- diagnose_proposer.py: statistics ----
\* the fast test with a strict comparison
IsFastStrict(d) == RLt(d, Millis(FAST_THRESHOLD))

IsFast(d) == RLe(d, Millis(FAST_THRESHOLD))

IsFail(d) == RLe(Millis(FAIL_THRESHOLD), d)

\* the defaultdict's default (lines 156-164)
NewStats ==
  [count |-> 0, sum |-> Zero, min |-> Inf, max |-> Zero, fast |-> 0, fail |-> 0,
   samples |-> <<>>]

StatsOf(st, v) == IF v \in DOMAIN st THEN st[v] ELSE NewStats

\* a deque that never evicts
SamplesAppendUnbounded(q, d) == Append(q, d)

\* deque(maxlen=SAMPLE_MAX).append
SamplesAppend(q, d) ==
  IF Len(q) >= SAMPLE_MAX THEN Append(Tail(q), d) ELSE Append(q, d)

\* the per-proposer update with its own test for a fast block
RecordStatsFastStrict(st, d) ==
  [count   |-> st.count + 1,
   sum     |-> RAdd(st.sum, d),
   min     |-> RMin(st.min, d),
   max     |-> RMax(st.max, d),
   fast    |-> st.fast + (IF IsFastStrict(d) THEN 1 ELSE 0),
   fail    |-> st.fail + (IF IsFail(d) THEN 1 ELSE 0),
   samples |-> SamplesAppend(st.samples, d)]

\* lines 257-266
RecordStats(st, d) ==
  [count   |-> st.count + 1,
   sum     |-> RAdd(st.sum, d),
   min     |-> RMin(st.min, d),
   max     |-> RMax(st.max, d),
   fast    |-> st.fast + (IF IsFast(d) THEN 1 ELSE 0),
   fail    |-> st.fail + (IF IsFail(d) THEN 1 ELSE 0),
   samples |-> SamplesAppend(st.samples, d)]

\* ---- diagnose_proposer.py: percentile_from_samples ----
RECURSIVE Insert(_, _)
\* d put into the ascending sequence s after the entries <= d
Insert(s, d) ==
  IF s = <<>> THEN << d >>
  ELSE IF RLt(d, Head(s)) THEN << d >> \o s
  ELSE << Head(s) >> \o Insert(Tail(s), d)

RECURSIVE SortedFrom(_, _, _)
SortedFrom(acc, s, k) ==
  IF k > Len(s) THEN acc ELSE SortedFrom(Insert(acc, s[k]), s, k + 1)

\* sorted(samples)
Sorted(s) == SortedFrom(<<>>, s, 1)

\* the integer Python's int always cuts to
PyRoundDown(num, den) == num \div den

\* round(num / den) for num >= 0, den > 0: to the nearest integer, a half to
\* the even neighbour
PyRound(num, den) ==
  LET q == num \div den
      r == num % den
  IN  IF 2 * r < den THEN q
      ELSE IF 2 * r > den THEN q + 1
      ELSE IF q % 2 = 0 THEN q ELSE q + 1

\* lines 121-126; None is the "no data" answer
percentile_from_samples(samples, p) ==
  IF samples = <<>> THEN None
  ELSE LET s == Sorted(samples)
           k == PyRound(p * (Len(s) - 1), 100)
           j == IF k > Len(s) - 1 THEN Len(s) - 1 ELSE k
       IN  s[(IF j < 0 THEN 0 ELSE j) + 1]

\* the final summary of diagnose_proposer.py (lines 288-306)
FinalReport ==
  [total_blocks |-> total_blocks, total_time |-> total_time,
   fast_blocks |-> fast_blocks, fail_blocks |-> fail_blocks,
   rows |-> [v \in DOMAIN stats |->
               [count |-> stats[v].count, sum |-> stats[v].sum,
                fast |-> stats[v].fast, fail |-> stats[v].fail,
                max |-> stats[v].max]]]

\* ---- diagnose_proposer.py: the two tables of the final report ----
\* pct(x, d), lines 285-286
pct(x, d) == IF d # 0 THEN Rat(100 * x, d) ELSE Zero

\* one entry of rows (lines 295-306); valcons is kept beside the label
ReportRow(v) ==
  [valcons |-> v,
   label   |-> ResolveLabel(v, valcons_map, pubkey_to_moniker).text,
   n       |-> stats[v].count,
   avg     |-> IF stats[v].count # 0
                 THEN Rat(stats[v].sum[1], stats[v].sum[2] * stats[v].count)
                 ELSE Zero,
   p95     |-> IF stats[v].samples = <<>> THEN Zero
                 ELSE percentile_from_samples(stats[v].samples, 95),
   fast_r  |-> pct(stats[v].fast, stats[v].count),
   fail_r  |-> pct(stats[v].fail, stats[v].count),
   max     |-> stats[v].max]

\* the sort key of line 310 with the average left out
KeyGreaterNoTieBreak(kind, r1, r2) ==
  IF kind = "fail" THEN RLt(r2.fail_r, r1.fail_r) ELSE RLt(r2.avg, r1.avg)

\* r1's key is greater than r2's: (fail_r, avg) at line 310, avg at line 315
KeyGreater(kind, r1, r2) ==
  IF kind = "fail"
    THEN \/ RLt(r2.fail_r, r1.fail_r)
         \/ r1.fail_r = r2.fail_r /\ RLt(r2.avg, r1.avg)
    ELSE RLt(r2.avg, r1.avg)

RECURSIVE InsertRow(_, _, _)
\* r put into the descending sequence acc after the rows whose key is not less
InsertRow(kind, acc, r) ==
  IF acc = <<>> THEN << r >>
  ELSE IF KeyGreater(kind, r, Head(acc)) THEN << r >> \o acc
  ELSE << Head(acc) >> \o InsertRow(kind, Tail(acc), r)

RECURSIVE SortRowsFrom(_, _, _, _)
SortRowsFrom(kind, acc, rows, k) ==
  IF k > Len(rows) THEN acc
  ELSE SortRowsFrom(kind, InsertRow(kind, acc, rows[k]), rows, k + 1)

\* rows.sort(key=..., reverse=True): descending, equal keys keep their order
SortRows(kind, rows) == SortRowsFrom(kind, <<>>, rows, 1)

\* rows[:10]
FirstTen(rows) == IF Len(rows) > 10 THEN SubSeq(rows, 1, 10) ELSE rows

\* lines 294-318: what the two tables list
RankingTables ==
  LET rows   == [k \in 1..Len(stats_order) |-> ReportRow(stats_order[k])]
      rows_5 == SelectSeq(rows, LAMBDA r : r.n >= 5)
      byFail == SortRows("fail", rows_5)
      byAvg  == SortRows("avg", byFail)
  IN  [fail_table |-> FirstTen(byFail), avg_table |-> FirstTen(byAvg)]

\* the final statistics of btlive.py (lines 111-122)
LiveFinalReport ==
  [total_blocks |-> total_blocks, total_time |-> total_time,
   min_bt |-> min_bt, max_bt |-> max_bt,
   fast_blocks |-> fast_blocks, faster_blocks |-> faster_blocks]


\* ------------------------------------------------------------------------
\* Initial state: the module-level assignments before the main loop
\* ------------------------------------------------------------------------
\* everything but the moniker index
InitCommon ==
  /\ status = "none"
  /\ height = None /\ ts = None
  /\ last_height = None /\ last_time = None
  /\ blocks_advanced = 0 /\ delta_total = 0 /\ per_block = Zero /\ i = 0
  /\ total_blocks = 0 /\ total_time = Zero /\ fast_blocks = 0
  /\ block_times = <<>> /\ window_sum = Zero
  /\ min_bt = Inf /\ max_bt = Zero /\ faster_blocks = 0
  /\ fail_blocks = 0
  /\ valcons_map = EmptyMap /\ last_valset_height = None
  /\ stats = EmptyMap
  /\ blk = [kind |-> "none", bytes |-> <<>>]
  /\ valcons = UNKNOWN
  /\ label = [moniker |-> <<>>, valcons |-> UNKNOWN, text |-> UNKNOWN]
  /\ out = <<>> /\ out_durations = {} /\ summary = <<>>
  /\ tick_kind = "none" /\ tick_refreshes = 0 /\ refresh_result = "none"
  /\ vlist = <<>>
  /\ unusual_blocks = 0
  /\ live_log = <<>>
  /\ global_log = <<>> /\ scope_log = EmptyMap /\ stats_order = <<>>
  /\ max_recorded = None /\ baseline_height = None /\ anomaly_heights = 0
  /\ pct_call = [samples |-> <<>>, p |-> 95] /\ pct_result = None

Init ==
  /\ program \in {"btlive", "diagnose"}
  /\ pc = "poll"
  /\ InitCommon
  /\ IF program = "diagnose"
       THEN /\ sv \in StakingReplies
            /\ pubkey_to_moniker = build_moniker_index(sv)
       ELSE /\ sv = [ok |-> FALSE, validators |-> <<>>]
            /\ pubkey_to_moniker = EmptyMap

\* ------------------------------------------------------------------------
\* Both scripts: one status poll (the head of "while True")
\* ------------------------------------------------------------------------
\* get_status() raised, or the reply did not decode: the exception is no
\* KeyboardInterrupt, so it leaves the try statement uncaught
StatusFailure(reply) ==
  /\ reply.kind # "ok"
  /\ status' = reply.kind
  /\ height' = (IF reply.kind = "bad_time" THEN reply.height ELSE height)
  /\ pc' = "crashed"
  /\ tick_kind' = "failed"
  /\ out' = <<>>
  /\ out_durations' = {}
  /\ UNCHANGED << program, ts, last_height, last_time, blocks_advanced, delta_total,
                  per_block, i, overallVars, liveVars, diagVars, summary, logVars, pctVars, stats_order >>

\* the baseline without its refresh of the validator set
BaselineNoRefresh(reply) ==
  /\ last_height = None
  /\ last_height' = reply.height
  /\ last_time' = reply.ts
  /\ tick_kind' = "baseline"
  /\ pc' = "poll"
  /\ baseline_height' = reply.height
  /\ UNCHANGED anomaly_heights
  /\ tick_refreshes' = 0
  /\ refresh_result' = "none"
  /\ UNCHANGED << blocks_advanced, delta_total, per_block, i, valcons_map,
                  last_valset_height, vlist >>

\* "if last_height is None" (btlive 53-57, diagnose 196-204)
Baseline(reply) ==
  /\ last_height = None
  /\ last_height' = reply.height
  /\ last_time' = reply.ts
  /\ tick_kind' = "baseline"
  /\ pc' = "poll"
  /\ baseline_height' = reply.height
  /\ UNCHANGED anomaly_heights
  /\ UNCHANGED << blocks_advanced, delta_total, per_block, i >>
  /\ IF program = "diagnose"
       THEN \E vr \in ValsetReplies(reply.height) :
              LET r == refresh_valset(reply.height, vr, valcons_map, last_valset_height)
              IN  /\ valcons_map' = r.map
                  /\ last_valset_height' = r.height
                  /\ refresh_result' = r.result
                  /\ vlist' = r.vlist
                  /\ tick_refreshes' = 1
       ELSE UNCHANGED << valcons_map, last_valset_height, refresh_result, vlist,
                         tick_refreshes >>

\* "if height > last_height" with delta_total > 0: the loop is entered
\* (btlive 59-67, diagnose 206-220)
Advance(reply) ==
  /\ last_height # None
  /\ reply.height > last_height
  /\ reply.ts - last_time > 0
  /\ blocks_advanced' = reply.height - last_height
  /\ delta_total' = reply.ts - last_time
  /\ per_block' = AmortizedDuration(reply.ts - last_time, reply.height - last_height)
  /\ i' = 1
  /\ tick_kind' = "record"
  /\ pc' = (IF program = "diagnose" THEN "block" ELSE "loop")
  /\ UNCHANGED << last_height, last_time, baseline_height, anomaly_heights >>
  /\ IF program = "diagnose" /\ NeedsRefresh(last_valset_height, reply.height)
       THEN \E vr \in ValsetReplies(reply.height) :
              LET r == refresh_valset(reply.height, vr, valcons_map, last_valset_height)
              IN  /\ valcons_map' = r.map
                  /\ last_valset_height' = r.height
                  /\ refresh_result' = r.result
                  /\ vlist' = r.vlist
                  /\ tick_refreshes' = 1
       ELSE /\ tick_refreshes' = 0
            /\ refresh_result' = "none"
            /\ UNCHANGED << valcons_map, last_valset_height, vlist >>

\* the dropped advance with the baseline left where it was
ClockAnomalyStuck(reply) ==
  /\ last_height # None
  /\ reply.height > last_height
  /\ reply.ts - last_time <= 0
  /\ blocks_advanced' = reply.height - last_height
  /\ delta_total' = reply.ts - last_time
  /\ tick_kind' = "anomaly"
  /\ anomaly_heights' = anomaly_heights + (reply.height - last_height)
  /\ UNCHANGED baseline_height
  /\ tick_refreshes' = 0
  /\ refresh_result' = "none"
  /\ pc' = "poll"
  /\ UNCHANGED << last_height, last_time, per_block, i, valcons_map, last_valset_height,
                  vlist >>

\* "if height > last_height" with delta_total <= 0: only lines 277-278 run
ClockAnomaly(reply) ==
  /\ last_height # None
  /\ reply.height > last_height
  /\ reply.ts - last_time <= 0
  /\ blocks_advanced' = reply.height - last_height
  /\ delta_total' = reply.ts - last_time
  /\ last_height' = reply.height
  /\ last_time' = reply.ts
  /\ tick_kind' = "anomaly"
  /\ anomaly_heights' = anomaly_heights + (reply.height - last_height)
  /\ UNCHANGED baseline_height
  /\ tick_refreshes' = 0
  /\ refresh_result' = "none"
  /\ pc' = "poll"
  /\ UNCHANGED << per_block, i, valcons_map, last_valset_height, vlist >>

\* the idle poll taking the reply's height and timestamp as the new baseline
NoAdvanceResync(reply) ==
  /\ last_height # None
  /\ reply.height <= last_height
  /\ last_height' = reply.height
  /\ last_time' = reply.ts
  /\ tick_kind' = "idle"
  /\ UNCHANGED << baseline_height, anomaly_heights >>
  /\ tick_refreshes' = 0
  /\ refresh_result' = "none"
  /\ pc' = "poll"
  /\ UNCHANGED << blocks_advanced, delta_total, per_block, i, valcons_map,
                  last_valset_height, vlist >>

\* height <= last_height: straight to time.sleep
NoAdvance(reply) ==
  /\ last_height # None
  /\ reply.height <= last_height
  /\ tick_kind' = "idle"
  /\ UNCHANGED << baseline_height, anomaly_heights >>
  /\ tick_refreshes' = 0
  /\ refresh_result' = "none"
  /\ pc' = "poll"
  /\ UNCHANGED << last_height, last_time, blocks_advanced, delta_total, per_block, i,
                  valcons_map, last_valset_height, vlist >>

Poll ==
  /\ pc = "poll"
  /\ \E reply \in StatusReplies :
       \/ StatusFailure(reply)
       \/ /\ reply.kind = "ok"
          /\ status' = "ok"
          /\ height' = reply.height
          /\ ts' = reply.ts
          /\ out' = <<>>
          /\ out_durations' = {}
          /\ \/ Baseline(reply)
             \/ Advance(reply)
             \/ ClockAnomaly(reply)
             \/ NoAdvance(reply)
          /\ UNCHANGED << program, overallVars, liveVars, fail_blocks, pubkey_to_moniker,
                          stats, blk, valcons, label, unusual_blocks, summary, sv,
                          global_log, scope_log, max_recorded, pctVars, stats_order >>

\* the end of one loop iteration: next height, or lines 277-280 / 103-106
NextHeight ==
  IF i < blocks_advanced
    THEN /\ i' = i + 1
         /\ pc' = (IF program = "diagnose" THEN "block" ELSE "loop")
         /\ UNCHANGED << last_height, last_time >>
    ELSE /\ i' = i
         /\ pc' = "poll"
         /\ last_height' = height
         /\ last_time' = ts

\* ------------------------------------------------------------------------
\* btlive.py: one iteration of the loop (lines 67-101)
\* ------------------------------------------------------------------------
LiveRecord ==
  /\ program = "btlive" /\ pc = "loop"
  /\ LET w == WindowPush([times |-> block_times, sum |-> window_sum], per_block)
     IN  /\ block_times' = w.times
         /\ window_sum' = w.sum
  /\ total_blocks' = total_blocks + 1
  /\ total_time' = RAdd(total_time, per_block)
  /\ min_bt' = RMin(min_bt, per_block)
  /\ max_bt' = RMax(max_bt, per_block)
  /\ fast_blocks' =
       fast_blocks + (IF RLe(Zero, per_block) /\ RLt(per_block, Millis(LIVE_FAST_LIMIT))
                        THEN 1 ELSE 0)
  /\ faster_blocks' =
       faster_blocks + (IF RLe(Zero, per_block) /\ RLt(per_block, Millis(LIVE_FASTER_LIMIT))
                          THEN 1 ELSE 0)
  /\ live_log' = Append(live_log, per_block)
  /\ max_recorded' = last_height + i
  /\ UNCHANGED << global_log, scope_log, baseline_height, anomaly_heights, pctVars,
                  stats_order >>
  /\ out' = Append(out, last_height + i)
  /\ out_durations' = out_durations \cup {per_block}
  /\ NextHeight
  /\ UNCHANGED << program, status, height, ts, blocks_advanced, delta_total, per_block,
                  diagVars, summary, tick_kind >>

\* ------------------------------------------------------------------------
\* diagnose_proposer.py: one height of the loop
\* ------------------------------------------------------------------------
\* lines 221-254: query the block, resolve the proposer, update the overall counters
FetchBlock ==
  /\ program = "diagnose" /\ pc = "block"
  /\ \E b \in {ChainBlock(last_height + i)}
               \cup (IF unusual_blocks < MaxUnusualBlocks THEN UnusualBlocks ELSE {}) :
       /\ blk' = b
       /\ unusual_blocks' = unusual_blocks + (IF b \in UnusualBlocks THEN 1 ELSE 0)
       /\ valcons' = ResolveValcons(b)
       /\ label' = ResolveLabel(ResolveValcons(b), valcons_map, pubkey_to_moniker)
  /\ total_blocks' = total_blocks + 1
  /\ total_time' = RAdd(total_time, per_block)
  /\ fast_blocks' = fast_blocks + (IF IsFast(per_block) THEN 1 ELSE 0)
  /\ fail_blocks' = fail_blocks + (IF IsFail(per_block) THEN 1 ELSE 0)
  /\ global_log' = LogAppend(global_log, per_block)
  /\ pc' = "stats"
  /\ UNCHANGED << scope_log, max_recorded, baseline_height, anomaly_heights, pctVars,
                  stats_order >>
  /\ UNCHANGED << program, status, height, ts, last_height, last_time, blocks_advanced,
                  delta_total, per_block, i, liveVars, pubkey_to_moniker, valcons_map,
                  last_valset_height, stats, out, out_durations, summary, tick_kind,
                  tick_refreshes,
                  refresh_result, vlist, sv >>

\* lines 256-275: update the proposer's statistics and print the line
UpdateStats ==
  /\ program = "diagnose" /\ pc = "stats"
  /\ stats' = Put(stats, valcons, RecordStats(StatsOf(stats, valcons), per_block))
  /\ stats_order' = (IF valcons \in DOMAIN stats THEN stats_order
                                                ELSE Append(stats_order, valcons))
  /\ scope_log' = Put(scope_log, valcons,
                      LogAppend(IF valcons \in DOMAIN scope_log THEN scope_log[valcons]
                                                                ELSE <<>>, per_block))
  /\ max_recorded' = last_height + i
  /\ UNCHANGED << global_log, baseline_height, anomaly_heights, pctVars >>
  /\ out' = Append(out, last_height + i)
  /\ out_durations' = out_durations \cup {per_block}
  /\ NextHeight
  /\ UNCHANGED << program, status, height, ts, blocks_advanced, delta_total, per_block,
                  overallVars, liveVars, fail_blocks, pubkey_to_moniker, valcons_map,
                  last_valset_height, blk, valcons, label, summary, tick_kind,
                  tick_refreshes, refresh_result, vlist, unusual_blocks, sv >>

\* ------------------------------------------------------------------------
\* Ctrl+C: KeyboardInterrupt is raised wherever the main thread is
\* ------------------------------------------------------------------------
Interrupt ==
  /\ pc \in {"poll", "loop", "block", "stats"}
  /\ pc' = "stopped"
  /\ summary' = Append(summary, IF program = "diagnose" THEN FinalReport
                                                        ELSE LiveFinalReport)
  /\ UNCHANGED << program, status, height, ts, last_height, last_time, blocks_advanced,
                  delta_total, per_block, i, overallVars, liveVars, diagVars, out,
                  out_durations, tick_kind, logVars, pctVars,
                  stats_order >>

Next ==
  \/ Poll
  \/ LiveRecord
  \/ FetchBlock
  \/ UpdateStats
  \/ Interrupt

\* ------------------------------------------------------------------------
\* diagnose_proposer.py: the startup on its own, over every staking reply of
\* up to MaxEntries entries
\* ------------------------------------------------------------------------
MaxEntries == 3

\* monikers: missing, blank, plain, padded with spaces
IndexMonikers == { <<>>, <<" ">>, <<"A">>, <<" ", "B", " ">> }

\* consensus keys: "" is a missing key
IndexKeys == { "", "k1", "k2" }

IndexItems == { StakingItem(m, k) : m \in IndexMonikers, k \in IndexKeys }

IndexReplies ==
  { [ok |-> FALSE, validators |-> <<>>] } \cup
  { [ok |-> TRUE, validators |-> vals] :
      vals \in UNION { [1..n -> IndexItems] : n \in 0..MaxEntries } }

InitIndex ==
  /\ program = "diagnose"
  /\ pc = "start"
  /\ InitCommon
  /\ sv \in IndexReplies
  /\ pubkey_to_moniker = EmptyMap

\* lines 136-149
BuildIndex ==
  /\ pc = "start"
  /\ pc' = "poll"
  /\ pubkey_to_moniker' = build_moniker_index(sv)
  /\ UNCHANGED << program, status, height, ts, last_height, last_time, blocks_advanced,
                  delta_total, per_block, i, overallVars, liveVars, fail_blocks,
                  valcons_map, last_valset_height, stats, blk, valcons, label, out,
                  out_durations, summary, tick_kind, tick_refreshes, refresh_result,
                  vlist, unusual_blocks, sv, logVars, pctVars, stats_order >>

NextIndex == BuildIndex

SpecIndex == InitIndex /\ [][NextIndex]_vars

\* ------------------------------------------------------------------------
\* diagnose_proposer.py: bytes20_to_valcons on its own, over a family of
\* 20-byte addresses
\* ------------------------------------------------------------------------
MaxMul == 31

CodecSeeds == { 0, 1, 31, 85, 127, 128, 170, 255 }

\* the addresses with bytes (a * k + b) mod 256: all-zero, all-ones, ramps
CodecInputs ==
  { [k \in 1..20 |-> (a * k + b) % 256] : a \in 0..MaxMul, b \in CodecSeeds }

InitCodec ==
  /\ program = "diagnose"
  /\ pc = "decoded"
  /\ status = "none"
  /\ height = None /\ ts = None
  /\ last_height = None /\ last_time = None
  /\ blocks_advanced = 0 /\ delta_total = 0 /\ per_block = Zero /\ i = 0
  /\ total_blocks = 0 /\ total_time = Zero /\ fast_blocks = 0
  /\ block_times = <<>> /\ window_sum = Zero
  /\ min_bt = Inf /\ max_bt = Zero /\ faster_blocks = 0
  /\ fail_blocks = 0
  /\ valcons_map = EmptyMap /\ last_valset_height = None
  /\ stats = EmptyMap
  /\ \E addr20 \in CodecInputs : blk = [kind |-> "address", bytes |-> addr20]
  /\ valcons = UNKNOWN
  /\ label = [moniker |-> <<>>, valcons |-> UNKNOWN, text |-> UNKNOWN]
  /\ out = <<>> /\ out_durations = {} /\ summary = <<>>
  /\ tick_kind = "none" /\ tick_refreshes = 0 /\ refresh_result = "none"
  /\ vlist = <<>>
  /\ unusual_blocks = 0
  /\ live_log = <<>>
  /\ global_log = <<>> /\ scope_log = EmptyMap /\ stats_order = <<>>
  /\ max_recorded = None /\ baseline_height = None /\ anomaly_heights = 0
  /\ pct_call = [samples |-> <<>>, p |-> 95] /\ pct_result = None
  /\ sv = [ok |-> FALSE, validators |-> <<>>]
  /\ pubkey_to_moniker = EmptyMap

\* lines 235-236
EncodeAddress ==
  /\ pc = "decoded"
  /\ Len(blk.bytes) = 20
  /\ valcons' = bytes20_to_valcons(blk.bytes)
  /\ pc' = "encoded"
  /\ UNCHANGED << program, status, height, ts, last_height, last_time, blocks_advanced,
                  delta_total, per_block, i, overallVars, liveVars, fail_blocks,
                  pubkey_to_moniker, valcons_map, last_valset_height, stats, blk, label,
                  out, out_durations, summary, tick_kind, tick_refreshes, refresh_result,
                  vlist, unusual_blocks, sv, logVars, pctVars, stats_order >>

NextCodec == EncodeAddress

SpecCodec == InitCodec /\ [][NextCodec]_vars

\* ------------------------------------------------------------------------
\* diagnose_proposer.py: percentile_from_samples on its own, over every
\* sample list of up to MaxSamples durations of 1..MaxSample milliseconds
\* ------------------------------------------------------------------------
MaxSamples == 5

MaxSample == 5

Percents == { 0, 10, 25, 50, 75, 95, 100 }

SampleLists ==
  UNION { [1..n -> { Millis(m) : m \in 1..MaxSample }] : n \in 0..MaxSamples }

InitPercentile ==
  /\ program = "diagnose"
  /\ pc = "call"
  /\ status = "none"
  /\ height = None /\ ts = None
  /\ last_height = None /\ last_time = None
  /\ blocks_advanced = 0 /\ delta_total = 0 /\ per_block = Zero /\ i = 0
  /\ total_blocks = 0 /\ total_time = Zero /\ fast_blocks = 0
  /\ block_times = <<>> /\ window_sum = Zero
  /\ min_bt = Inf /\ max_bt = Zero /\ faster_blocks = 0
  /\ fail_blocks = 0
  /\ valcons_map = EmptyMap /\ last_valset_height = None
  /\ stats = EmptyMap
  /\ blk = [kind |-> "none", bytes |-> <<>>]
  /\ valcons = UNKNOWN
  /\ label = [moniker |-> <<>>, valcons |-> UNKNOWN, text |-> UNKNOWN]
  /\ out = <<>> /\ out_durations = {} /\ summary = <<>>
  /\ tick_kind = "none" /\ tick_refreshes = 0 /\ refresh_result = "none"
  /\ vlist = <<>>
  /\ unusual_blocks = 0
  /\ live_log = <<>>
  /\ global_log = <<>> /\ scope_log = EmptyMap /\ stats_order = <<>>
  /\ max_recorded = None /\ baseline_height = None /\ anomaly_heights = 0
  /\ sv = [ok |-> FALSE, validators |-> <<>>]
  /\ pubkey_to_moniker = EmptyMap
  /\ pct_call \in [samples : SampleLists, p : Percents]
  /\ pct_result = None

\* one call of percentile_from_samples
CallPercentile ==
  /\ pc = "call"
  /\ pct_result' = percentile_from_samples(pct_call.samples, pct_call.p)
  /\ pc' = "returned"
  /\ UNCHANGED << program, status, height, ts, last_height, last_time, blocks_advanced,
                  delta_total, per_block, i, overallVars, liveVars, fail_blocks,
                  pubkey_to_moniker, valcons_map, last_valset_height, stats, blk, valcons,
                  label, out, out_durations, summary, tick_kind, tick_refreshes,
                  refresh_result, vlist, unusual_blocks, sv, logVars, pct_call,
                  stats_order >>

NextPercentile == CallPercentile

SpecPercentile == InitPercentile /\ [][NextPercentile]_vars

\* ------------------------------------------------------------------------
\* diagnose_proposer.py: the tables of the final report on their own, over
\* families of up to MaxScopes proposers
\* ------------------------------------------------------------------------
MaxScopes == 12

MaxStride == 5

\* a proposer's consensus address
Scope(k) == << "valcons", k >>

\* 18 profiles: 4, 5 or 6 records, of which 0, 1 or 2 last 5.0 s and the
\* others 0.6 s or 0.8 s
ProfileDurations(q) ==
  [k \in 1..(4 + (q \div 6)) |->
     IF k <= q % 3 THEN Millis(FAIL_THRESHOLD)
                   ELSE Millis(600 + 200 * ((q \div 3) % 2))]

RECURSIVE FoldRecords(_, _, _)
\* the record of a proposer after the durations durs[k..]
FoldRecords(st, durs, k) ==
  IF k > Len(durs) THEN st ELSE FoldRecords(RecordStats(st, durs[k]), durs, k + 1)

\* proposer k of the family (a, b) has profile (a * k + b) mod 18
FamilyStats(n, a, b) ==
  [v \in { Scope(k) : k \in 1..n } |->
     FoldRecords(NewStats, ProfileDurations((a * v[2] + b) % 18), 1)]

RECURSIVE CounterSum(_, _, _)
\* the sum of a counter over the proposers order[k..]
CounterSum(st, order, field) ==
  IF order = <<>> THEN 0
  ELSE st[Head(order)][field] + CounterSum(st, Tail(order), field)

RECURSIVE TimeSum(_, _)
TimeSum(st, order) ==
  IF order = <<>> THEN Zero ELSE RAdd(st[Head(order)].sum, TimeSum(st, Tail(order)))

InitRanking ==
  /\ program = "diagnose"
  /\ pc = "stopped"
  /\ status = "ok"
  /\ height = None /\ ts = None
  /\ last_height = None /\ last_time = None
  /\ blocks_advanced = 0 /\ delta_total = 0 /\ per_block = Zero /\ i = 0
  /\ block_times = <<>> /\ window_sum = Zero
  /\ min_bt = Inf /\ max_bt = Zero /\ faster_blocks = 0
  /\ valcons_map = EmptyMap /\ last_valset_height = None
  /\ \E n \in 1..MaxScopes, a \in 0..MaxStride, b \in 0..17 :
       /\ stats = FamilyStats(n, a, b)
       /\ stats_order = [k \in 1..n |-> Scope(k)]
  /\ total_blocks = CounterSum(stats, stats_order, "count")
  /\ fast_blocks = CounterSum(stats, stats_order, "fast")
  /\ fail_blocks = CounterSum(stats, stats_order, "fail")
  /\ total_time = TimeSum(stats, stats_order)
  /\ blk = [kind |-> "none", bytes |-> <<>>]
  /\ valcons = UNKNOWN
  /\ label = [moniker |-> <<>>, valcons |-> UNKNOWN, text |-> UNKNOWN]
  /\ out = <<>> /\ out_durations = {} /\ summary = <<>>
  /\ tick_kind = "none" /\ tick_refreshes = 0 /\ refresh_result = "none"
  /\ vlist = <<>>
  /\ unusual_blocks = 0
  /\ live_log = <<>>
  /\ global_log = <<>> /\ scope_log = EmptyMap
  /\ max_recorded = None /\ baseline_height = None /\ anomaly_heights = 0
  /\ sv = [ok |-> FALSE, validators |-> <<>>]
  /\ pubkey_to_moniker = EmptyMap
  /\ pct_call = [samples |-> <<>>, p |-> 95] /\ pct_result = None

\* lines 294-318
PrintTables ==
  /\ pc = "stopped"
  /\ summary' = Append(summary, RankingTables)
  /\ pc' = "reported"
  /\ UNCHANGED << program, status, height, ts, last_height, last_time, blocks_advanced,
                  delta_total, per_block, i, overallVars, liveVars, fail_blocks,
                  pubkey_to_moniker, valcons_map, last_valset_height, stats, blk, valcons,
                  label, out, out_durations, tick_kind, tick_refreshes, refresh_result,
                  vlist, unusual_blocks, sv, logVars, pctVars, stats_order >>

NextRanking == PrintTables

SpecRanking == InitRanking /\ [][NextRanking]_vars

Spec == Init /\ [][Next]_vars

\* ------------------------------------------------------------------------
\* Properties
\* ------------------------------------------------------------------------
Min(a, b) == IF a <= b THEN a ELSE b

\* the last n elements of q
LastN(q, n) == SubSeq(q, Len(q) - Min(n, Len(q)) + 1, Len(q))

HeightRange(first, last) == [k \in 1..(last - first + 1) |-> first + k - 1]

\* C2: a poll that advances the height by k blocks over a positive elapsed
\* time t records k observations, one per height last_height+1..new_height
\* in ascending order, each of duration t / k; a tick from 100 to 103 over
\* 3.0 s records 101, 102, 103 with 1.0 s each.
C2_GapAmortization ==
  /\ pc \in {"loop", "block", "stats"} =>
       /\ blocks_advanced = height - last_height
       /\ delta_total = ts - last_time
       /\ delta_total > 0
       /\ RTimes(blocks_advanced, per_block) = Millis(delta_total)
       /\ out = HeightRange(last_height + 1, last_height + i - 1)
       /\ out_durations \subseteq {per_block}
  /\ (pc = "poll" /\ tick_kind = "record") =>
       /\ out = HeightRange(height - blocks_advanced + 1, height)
       /\ out_durations = {Rat(delta_total, blocks_advanced)}
       /\ (height = 103 /\ blocks_advanced = 3 /\ delta_total = 3000) =>
            /\ out = << 101, 102, 103 >>
            /\ out_durations = {Millis(1000)}

\* the tick from 100 to 103 over 3.0 s has completed
C2_Witness ==
  /\ pc = "poll" /\ tick_kind = "record"
  /\ height = 103 /\ blocks_advanced = 3 /\ delta_total = 3000
  /\ Len(out) = 3

\* the statistics of both scripts
statVars == << overallVars, liveVars, fail_blocks, stats >>

\* C3: a poll whose height is greater than last_height but whose elapsed
\* time is not positive records no observation and changes no statistic
\* (global counters, per-proposer statistics, sliding window), yet sets
\* last_height and last_time to the new values; the next poll with a
\* greater height and a later timestamp enters the recording loop again,
\* measured from those values.
C3_ClockAnomaly ==
  [][ /\ ( /\ pc = "poll" /\ pc' # "stopped" /\ status' = "ok"
           /\ last_height # None
           /\ height' > last_height /\ ts' - last_time <= 0 )
         => /\ UNCHANGED statVars
            /\ out' = <<>>
            /\ last_height' = height'
            /\ last_time' = ts'
            /\ pc' = "poll"
      /\ ( /\ pc = "poll" /\ pc' # "stopped" /\ status' = "ok"
           /\ tick_kind = "anomaly"
           /\ height' > last_height /\ ts' - last_time > 0 )
         => /\ last_height = height /\ last_time = ts
            /\ pc' \in {"loop", "block"}
            /\ i' = 1
            /\ blocks_advanced' = height' - height
            /\ delta_total' = ts' - ts
    ]_vars

\* an advance with non-positive elapsed time has been dropped after some
\* observations were recorded
C3_Witness ==
  /\ pc = "poll" /\ tick_kind = "anomaly"
  /\ total_blocks > 0
  /\ delta_total <= 0
  /\ last_height = height /\ last_time = ts

\* C4: a failed status fetch, or a status reply whose height or timestamp
\* does not decode, ends nothing: the tick records no observation, leaves
\* last_height, last_time and every statistic unchanged, and the loop polls
\* again; only cancellation stops the session.
C4_StatusFailureNotFatal ==
  [][ ( /\ pc = "poll"
        /\ status' \in {"fetch_failed", "bad_height", "bad_time"} )
        => /\ pc' = "poll"
           /\ out' = <<>>
           /\ UNCHANGED << last_height, last_time, statVars >>
    ]_vars

\* C5: for every height of an advancing tick, a block reply that fails, has
\* no header or proposer address, does not decode, or is not 20 bytes long
\* puts the observation in scope "unknown"; the duration is still added to
\* the global counters and to the scope's statistics, and the tick records
\* blocks_advanced observations whatever the block replies were.
C5_UnknownStillMeasured ==
  [][ /\ (pc = "block" /\ pc' = "stats")
         => /\ (blk'.kind # "address" \/ Len(blk'.bytes) # 20) => valcons' = UNKNOWN
            /\ total_blocks' = total_blocks + 1
            /\ total_time' = RAdd(total_time, per_block)
      /\ (pc = "stats" /\ pc' \in {"block", "poll"})
         => /\ valcons \in DOMAIN stats'
            /\ stats'[valcons].count =
                 (IF valcons \in DOMAIN stats THEN stats[valcons].count ELSE 0) + 1
            /\ stats'[valcons].sum =
                 RAdd(IF valcons \in DOMAIN stats THEN stats[valcons].sum ELSE Zero,
                      per_block)
            /\ pc' = "poll" => Len(out') = blocks_advanced
    ]_vars

\* a tick has ended on a 19-byte proposer address, recorded under "unknown"
C5_Witness ==
  /\ pc = "poll" /\ tick_kind = "record"
  /\ blk.kind = "address" /\ Len(blk.bytes) = 19
  /\ valcons = UNKNOWN
  /\ UNKNOWN \in DOMAIN stats
  /\ stats[UNKNOWN].count = 1
  /\ stats[UNKNOWN].sum = per_block
  /\ total_blocks >= 1
  /\ Len(out) = blocks_advanced

RECURSIVE CountSum(_, _)
\* the sum of the counts of the rows of the scopes in S
CountSum(rows, S) ==
  IF S = {} THEN 0
  ELSE LET v == CHOOSE x \in S : TRUE IN rows[v].count + CountSum(rows, S \ {v})

\* C6: when the session is cancelled the final summary is produced exactly
\* once and reads the statistics as of a fully processed tick: the tick in
\* which the cancellation fell has recorded either none or all of its
\* observations, and every observation counted globally is counted in its
\* proposer scope.
C6_CancellationBetweenTicks ==
  (program = "diagnose" /\ pc = "stopped") =>
    /\ Len(summary) = 1
    /\ tick_kind = "record" => Len(out) \in {0, blocks_advanced}
    /\ summary[1].total_blocks = CountSum(summary[1].rows, DOMAIN summary[1].rows)

\* a poll step of diagnose_proposer.py that decoded its status reply
DiagnosePollStep ==
  /\ program = "diagnose"
  /\ pc = "poll" /\ pc' # "stopped"
  /\ status' = "ok"

\* C7: a validator-set refresh that fails leaves the address table and
\* last_valset_height as they were, proposers of the tick are labelled from
\* the table that was there before, and the tick that made the attempt
\* records all of its observations.
C7_FailedRefreshKeepsDirectory ==
  [][ /\ (DiagnosePollStep /\ tick_refreshes' = 1 /\ refresh_result' = "failed")
         => /\ UNCHANGED << valcons_map, last_valset_height >>
            /\ last_height # None => (pc' = "block" /\ i' = 1)
      /\ (pc = "block" /\ pc' = "stats" /\ refresh_result = "failed")
         => /\ UNCHANGED << valcons_map, last_valset_height >>
            /\ label'.moniker =
                 (IF /\ valcons' \in DOMAIN valcons_map
                     /\ valcons_map[valcons'].pubkey_b64 \in DOMAIN pubkey_to_moniker
                   THEN pubkey_to_moniker[valcons_map[valcons'].pubkey_b64]
                   ELSE <<>>)
      /\ (pc = "stats" /\ pc' = "poll" /\ refresh_result = "failed")
         => Len(out') = blocks_advanced
    ]_vars

\* a tick whose refresh failed 200 or more heights after the last success
\* has recorded all its observations, the last one labelled from the old
\* table
C7_Witness ==
  /\ pc = "poll" /\ tick_kind = "record"
  /\ tick_refreshes = 1 /\ refresh_result = "failed"
  /\ last_valset_height # None
  /\ height - last_valset_height >= VALIDATORSET_REFRESH_EVERY
  /\ valcons_map # EmptyMap
  /\ label.moniker # <<>>
  /\ Len(out) = blocks_advanced

\* the refresh test of a tick that reaches height h
RefreshDue(h) ==
  last_valset_height = None \/ h - last_valset_height >= VALIDATORSET_REFRESH_EVERY

\* C8 as stated: on every poll of STEADY the refresh check runs once with
\* the tick's resulting height, a refresh is attempted exactly when no
\* refresh has succeeded yet or height - last_valset_height >= 200, at most
\* once per tick and never per intervening height, and the baseline tick has
\* made one attempt before any observation.
C8_RefreshEverySteadyTick ==
  [][ /\ (DiagnosePollStep /\ last_height # None)
         => /\ tick_refreshes' = (IF RefreshDue(height') THEN 1 ELSE 0)
            /\ (tick_refreshes' = 1 /\ refresh_result' = "ok")
                 => last_valset_height' = height'
      /\ (DiagnosePollStep /\ last_height = None)
         => (tick_refreshes' = 1 /\ total_blocks = 0)
      /\ pc \in {"block", "stats"}
         => UNCHANGED << tick_refreshes, valcons_map, last_valset_height >>
    ]_vars

\* C8: the refresh check runs once on every poll of STEADY whose height is
\* greater than last_height with positive elapsed time, before the tick's
\* first observation and with the tick's resulting height; a refresh is
\* attempted exactly when no refresh has succeeded yet or
\* height - last_valset_height >= 200. Polls without advance and advances
\* dropped for non-positive elapsed time attempt none. No attempt is made
\* per intervening height, and the baseline tick makes one attempt before
\* any observation.
C8_RefreshCadence ==
  [][ /\ (DiagnosePollStep /\ last_height # None)
         => /\ tick_refreshes' =
                 (IF /\ height' > last_height /\ ts' - last_time > 0
                     /\ RefreshDue(height')
                   THEN 1 ELSE 0)
            /\ (tick_refreshes' = 1 /\ refresh_result' = "ok")
                 => last_valset_height' = height'
            /\ tick_refreshes' = 1 => (pc' = "block" /\ i' = 1 /\ out' = <<>>)
      /\ (DiagnosePollStep /\ last_height = None)
         => (tick_refreshes' = 1 /\ total_blocks = 0)
      /\ pc \in {"block", "stats"}
         => UNCHANGED << tick_refreshes, valcons_map, last_valset_height >>
    ]_vars

\* a tick of 200 heights has refreshed at its resulting height before its
\* first observation
C8_Witness ==
  /\ pc = "block" /\ i = 1 /\ out = <<>>
  /\ tick_kind = "record"
  /\ tick_refreshes = 1 /\ refresh_result = "ok"
  /\ blocks_advanced = VALIDATORSET_REFRESH_EVERY
  /\ last_valset_height = height
  /\ total_blocks > 0

\* the entries of an address table
TableEntries(table) ==
  { << a, table[a].pubkey_b64, table[a].power >> : a \in DOMAIN table }

\* the entries of a snapshot that have both an address and a public key
SnapshotEntries(items) ==
  { << items[k].address, items[k].pub_key, items[k].voting_power >> :
      k \in { j \in 1..Len(items) : items[j].address # <<>> /\ items[j].pub_key # "" } }

\* C9: after a successful refresh at height h the address table holds
\* exactly the snapshot's entries that have an address and a public key,
\* nothing of the previous table, and last_valset_height = h; refreshing
\* again from the same snapshot gives the same table.
C9_RefreshReplaces ==
  [][ (DiagnosePollStep /\ tick_refreshes' = 1 /\ refresh_result' = "ok")
        => /\ TableEntries(valcons_map') = SnapshotEntries(vlist')
           /\ last_valset_height' = height'
           /\ refresh_valset(height', [ok |-> TRUE, validators |-> vlist'],
                             valcons_map', last_valset_height').map = valcons_map'
    ]_vars

\* the refresh at height 303 has replaced a table that labelled the last
\* proposer of the previous tick: only the new snapshot's entry is left
C9_Witness ==
  /\ pc = "block" /\ i = 1
  /\ refresh_result = "ok" /\ tick_refreshes = 1
  /\ last_valset_height = 303
  /\ label.moniker # <<>>
  /\ DOMAIN valcons_map = {ValconsB}
  /\ valcons_map[ValconsB].pubkey_b64 = "pkB2"

\* a moniker with a character that is not a space
NonBlank(m) == \E k \in 1..Len(m) : m[k] # " "

\* m from its first to its last character that is not a space
Trimmed(m) ==
  LET ks == { k \in 1..Len(m) : m[k] # " " }
      lo == CHOOSE k \in ks : \A j \in ks : k <= j
      hi == CHOOSE k \in ks : \A j \in ks : j <= k
  IN  IF ks = {} THEN <<>> ELSE SubSeq(m, lo, hi)

\* the positions of the entries of vals that carry key with a moniker
Carriers(vals, key) ==
  { k \in 1..Len(vals) : vals[k].pk = key /\ NonBlank(vals[k].moniker) }

\* the keys of the entries that have both a key and a moniker
IndexedKeys(vals) ==
  { vals[k].pk : k \in { j \in 1..Len(vals) : vals[j].pk # "" /\ NonBlank(vals[j].moniker) } }

\* C10 as stated: the index maps every public key carried by an entry with a
\* non-blank moniker to the moniker of the first such entry; entries without
\* a moniker or without a key are skipped.
C10_FirstOccurrenceWins ==
  pc # "start" =>
    /\ DOMAIN pubkey_to_moniker = IndexedKeys(sv.validators)
    /\ \A key \in DOMAIN pubkey_to_moniker :
         LET first == CHOOSE k \in Carriers(sv.validators, key) :
                        \A j \in Carriers(sv.validators, key) : k <= j
         IN  pubkey_to_moniker[key] = Trimmed(sv.validators[first].moniker)

\* C10: the index maps every public key carried by an entry with a
\* non-blank moniker to the moniker, without surrounding spaces, of the last
\* such entry; entries without a moniker or without a key are skipped.
C10_LastOccurrenceWins ==
  pc # "start" =>
    /\ DOMAIN pubkey_to_moniker = IndexedKeys(sv.validators)
    /\ \A key \in DOMAIN pubkey_to_moniker :
         LET last == CHOOSE k \in Carriers(sv.validators, key) :
                       \A j \in Carriers(sv.validators, key) : j <= k
         IN  pubkey_to_moniker[key] = Trimmed(sv.validators[last].moniker)

\* the index of a snapshot in which key "k1" comes with moniker "A", then
\* with a blank moniker, then with moniker " B "
C10_Witness ==
  /\ pc # "start"
  /\ Len(sv.validators) = 3
  /\ sv.validators[1] = StakingItem(<<"A">>, "k1")
  /\ sv.validators[2] = StakingItem(<<" ">>, "k1")
  /\ sv.validators[3] = StakingItem(<<" ", "B", " ">>, "k1")
  /\ pubkey_to_moniker = [k \in {"k1"} |-> <<"B">>]

\* C11: the label of an observation is "<moniker> (<address>)" exactly when
\* the consensus address is in the address table and the entry's public key
\* is in the moniker index; it is the bare address when the address was
\* computed and a lookup misses; it is "unknown" when the address could not
\* be computed. When the staking query failed at startup the index is empty
\* and every label is a bare address or "unknown".
C11_LabelResolution ==
  [][ (pc = "block" /\ pc' = "stats")
        => LET computed == blk'.kind = "address" /\ Len(blk'.bytes) = 20
               inTable  == valcons' \in DOMAIN valcons_map
               inIndex  == inTable /\
                           valcons_map[valcons'].pubkey_b64 \in DOMAIN pubkey_to_moniker
           IN  /\ computed => valcons' = ValconsTable[blk'.bytes]
               /\ (computed /\ inIndex)
                    => label'.text =
                         pubkey_to_moniker[valcons_map[valcons'].pubkey_b64]
                           \o << " ", "(" >> \o valcons' \o << ")" >>
               /\ (computed /\ ~inIndex) => label'.text = valcons'
               /\ ~computed => label'.text = UNKNOWN
               /\ label'.text[Len(label'.text)] = ")" <=> (computed /\ inIndex)
               /\ ~sv.ok => /\ pubkey_to_moniker = EmptyMap
                            /\ label'.text \in {valcons', UNKNOWN}
    ]_vars

\* the proposer of a block is labelled "A2 (<address of A>)"
C11_Witness ==
  /\ pc = "stats"
  /\ blk.bytes = AddrA
  /\ ValconsA \in DOMAIN valcons_map
  /\ label.text = << "A", "2", " ", "(" >> \o ValconsA \o << ")" >>

\* C12: the first status reply that decodes sets last_height and last_time
\* to its height and timestamp and leaves the loop in its steady state;
\* diagnose_proposer.py attempts one refresh of the validator directory at
\* that height, whose failure changes nothing; no observation is recorded
\* and no statistic changes. Before it nothing has been recorded.
C12_Baseline ==
  [][ /\ (pc = "poll" /\ pc' # "stopped" /\ status' = "ok" /\ last_height = None)
         => /\ last_height' = height' /\ last_time' = ts'
            /\ last_height' # None
            /\ pc' = "poll"
            /\ total_blocks = 0
            /\ UNCHANGED statVars
            /\ out' = <<>> /\ out_durations' = {}
            /\ program = "diagnose"
                 => /\ tick_refreshes' = 1
                    /\ refresh_result' \in {"ok", "failed"}
                    /\ refresh_result' = "ok" => last_valset_height' = height'
                    /\ refresh_result' = "failed"
                         => UNCHANGED << valcons_map, last_valset_height >>
      /\ last_height # None => last_height' # None
    ]_vars

\* the baseline of diagnose_proposer.py at height 101 with a failed refresh
C12_Witness ==
  /\ program = "diagnose"
  /\ pc = "poll" /\ tick_kind = "baseline"
  /\ last_height = 101 /\ last_time = 5000
  /\ height = 101 /\ ts = 5000
  /\ tick_refreshes = 1 /\ refresh_result = "failed"
  /\ total_blocks = 0 /\ stats = EmptyMap

\* the 5-bit value of a symbol of CHARSET
CharIndex(c) == CHOOSE d \in 0..31 : CHARSET[d + 1] = c

\* bech32 verification: the polymod of the expanded prefix and all symbols is 1
bech32_verify_checksum(hrp, values) ==
  bech32_polymod(bech32_hrp_expand(hrp) \o values) = 1

\* C13: for every 20-byte address the encoding is the prefix, the separator
\* "1", 32 data symbols and 6 checksum symbols of CHARSET; it is the same on
\* every evaluation, passes the bech32 checksum verification for the prefix,
\* and its 32 data symbols regrouped from 5 to 8 bits without padding are
\* the 20 bytes that were encoded.
C13_CodecRoundTrip ==
  pc = "encoded" =>
    /\ Len(valcons) = 2 + 32 + 6
    /\ valcons[1] = VALCONS_PREFIX
    /\ valcons[2] = "1"
    /\ \A k \in 3..Len(valcons) : \E d \in 0..31 : CHARSET[d + 1] = valcons[k]
    /\ valcons = bytes20_to_valcons(blk.bytes)
    /\ LET values == [k \in 1..38 |-> CharIndex(valcons[k + 2])]
       IN  /\ bech32_verify_checksum(PrefixCodes, values)
           /\ convertbits(SubSeq(values, 1, 32), 5, 8, FALSE) = << TRUE, blk.bytes >>

\* the bytes 1..20 have been encoded
C13_Witness ==
  /\ pc = "encoded"
  /\ blk.bytes = [k \in 1..20 |-> k]
  /\ valcons = << VALCONS_PREFIX, "1" >> \o
                 << "q", "y", "p", "q", "x", "p", "q", "9", "q", "c", "r", "s", "s", "z", "g", "2", "p", "v", "x", "q", "6", "r", "s", "0", "z", "q", "g", "3", "y", "y", "c", "5", "u", "f", "n", "h", "y", "e" >>

\* does duration d (milliseconds, <<numerator, denominator>>) count as kind
CountsAs(d, kind) ==
  CASE kind = "all"  -> TRUE
    [] kind = "fast" -> d[1] <= FAST_THRESHOLD * d[2]
    [] kind = "fail" -> d[1] >= FAIL_THRESHOLD * d[2]

RECURSIVE RunsTotal(_, _)
\* the number of durations of a history that count as kind
RunsTotal(runs, kind) ==
  IF runs = <<>> THEN 0
  ELSE (IF CountsAs(Head(runs)[1], kind) THEN Head(runs)[2] ELSE 0)
         + RunsTotal(Tail(runs), kind)

\* C14: after any sequence of recorded observations, globally and for every
\* proposer scope, the fast counter is the number of durations recorded
\* there that are <= 0.7 s, the fail counter the number that are >= 5.0 s,
\* and fast + fail <= count.
C14_ClassificationCounters ==
  program = "diagnose" =>
    /\ total_blocks = RunsTotal(global_log, "all")
    /\ fast_blocks = RunsTotal(global_log, "fast")
    /\ fail_blocks = RunsTotal(global_log, "fail")
    /\ fast_blocks + fail_blocks <= total_blocks
    /\ DOMAIN stats = DOMAIN scope_log
    /\ \A v \in DOMAIN stats :
         /\ stats[v].count = RunsTotal(scope_log[v], "all")
         /\ stats[v].fast = RunsTotal(scope_log[v], "fast")
         /\ stats[v].fail = RunsTotal(scope_log[v], "fail")
         /\ stats[v].fast + stats[v].fail <= stats[v].count

\* one observation of exactly 5.0 s for proposer B and 200 of exactly 0.7 s
\* have been recorded
C14_Witness ==
  /\ program = "diagnose" /\ pc = "poll"
  /\ global_log = << << Millis(5000), 1 >>, << Millis(700), 200 >> >>
  /\ fail_blocks = 1 /\ fast_blocks = 200 /\ total_blocks = 201
  /\ ValconsB \in DOMAIN stats
  /\ stats[ValconsB].fail = 1 /\ stats[ValconsB].fast = 0
  /\ ValconsA \in DOMAIN stats
  /\ stats[ValconsA].fast = stats[ValconsA].count

\* x <= y for durations <<numerator, denominator>>, compared over the least
\* common denominator; float("inf") is <<1, 0>>
DurLe(x, y) ==
  LET g == GCD(x[2], y[2]) IN x[1] * (y[2] \div g) <= y[1] * (x[2] \div g)

\* the durations of a history of runs
RunDurations(runs) == { runs[k][1] : k \in 1..Len(runs) }

\* m is the smallest (largest) of the non-empty set D of durations
IsLeast(m, D) == m \in D /\ \A d \in D : DurLe(m, d)

IsGreatest(m, D) == m \in D /\ \A d \in D : DurLe(d, m)

\* lo * n <= sum <= hi * n
MeanBetween(lo, sum, n, hi) ==
  /\ DurLe(Rat(n * lo[1], lo[2]), sum)
  /\ DurLe(sum, Rat(n * hi[1], hi[2]))

RECURSIVE Expand(_)
\* the durations of a history of runs, one by one in arrival order
Expand(runs) ==
  IF runs = <<>> THEN <<>>
  ELSE Expand(SubSeq(runs, 1, Len(runs) - 1))
         \o [k \in 1..runs[Len(runs)][2] |-> runs[Len(runs)][1]]

\* C16: every record leaves the scope's samples holding min(count, 200)
\* entries, the scope's most recent durations in arrival order (the oldest
\* is evicted first), while count grows by one and sum by the duration;
\* the other scopes are untouched, and nothing but a record changes a scope.
C16_BoundedSamples ==
  [][ /\ (pc = "stats" /\ pc' # "stopped")
         => /\ valcons \in DOMAIN stats' /\ valcons \in DOMAIN scope_log'
            /\ Len(stats'[valcons].samples) = Min(stats'[valcons].count, SAMPLE_MAX)
            /\ stats'[valcons].samples = LastN(Expand(scope_log'[valcons]), SAMPLE_MAX)
            /\ stats'[valcons].count = Len(Expand(scope_log'[valcons]))
            /\ stats'[valcons].count =
                 (IF valcons \in DOMAIN stats THEN stats[valcons].count ELSE 0) + 1
            /\ stats'[valcons].sum =
                 RAdd(IF valcons \in DOMAIN stats THEN stats[valcons].sum ELSE Zero,
                      per_block)
            /\ \A v \in DOMAIN stats' \ {valcons} :
                 v \in DOMAIN stats /\ stats'[v] = stats[v]
      /\ ~(pc = "stats" /\ pc' # "stopped") => UNCHANGED << stats, scope_log >>
    ]_vars

\* proposer A's 201st record has evicted its first duration, 1.0 s
C16_Witness ==
  /\ program = "diagnose"
  /\ ValconsA \in DOMAIN stats
  /\ scope_log[ValconsA] = << << Millis(1000), 1 >>, << Millis(700), 200 >> >>
  /\ stats[ValconsA].count = SAMPLE_MAX + 1
  /\ Len(stats[ValconsA].samples) = SAMPLE_MAX
  /\ stats[ValconsA].samples[1] = Millis(700)
  /\ stats[ValconsA].sum = Millis(141000)

\* the number of entries of s that are below d, and that are at most d
Below(s, d) == Cardinality({ j \in 1..Len(s) : ~DurLe(d, s[j]) })

AtMost(s, d) == Cardinality({ j \in 1..Len(s) : DurLe(s[j], d) })

\* C17: for n > 0 samples and 0 <= p <= 100 the percentile is the entry at
\* index k of the samples in ascending order, k an integer nearest to
\* p/100 * (n - 1) and within 0..n-1; it is one of the samples, the minimum
\* for p = 0 and the maximum for p = 100; [1,2,3,4,5] with p = 50 gives 3,
\* [1,2] with p = 95 gives 2; no samples give the "no data" answer.
C17_PercentileNearestRank ==
  pc = "returned" =>
    LET s == pct_call.samples
        n == Len(pct_call.samples)
        p == pct_call.p
    IN  /\ n = 0 => pct_result = None
        /\ n > 0 =>
             /\ \E j \in 1..n : s[j] = pct_result
             /\ \E k \in 0..(n - 1) :
                  /\ 2 * (100 * k - p * (n - 1)) <= 100
                  /\ 2 * (p * (n - 1) - 100 * k) <= 100
                  /\ Below(s, pct_result) <= k
                  /\ AtMost(s, pct_result) >= k + 1
             /\ p = 0 => \A j \in 1..n : DurLe(pct_result, s[j])
             /\ p = 100 => \A j \in 1..n : DurLe(s[j], pct_result)
        /\ (s = << Millis(1), Millis(2), Millis(3), Millis(4), Millis(5) >> /\ p = 50)
             => pct_result = Millis(3)
        /\ (s = << Millis(1), Millis(2) >> /\ p = 95) => pct_result = Millis(2)

\* the 95th percentile of the samples 2, 1 is 2
C17_Witness ==
  /\ pc = "returned"
  /\ pct_call = [samples |-> << Millis(2), Millis(1) >>, p |-> 95]
  /\ pct_result = Millis(2)

\* ---- C18 ----
\* the proposers that have at least 5 records
Eligible == { v \in DOMAIN stats : stats[v].count >= 5 }

\* proposer v's fail rate is strictly higher than w's
RateHigher(v, w) == stats[v].fail * stats[w].count > stats[w].fail * stats[v].count

\* proposer v's average duration is strictly higher than w's
AvgHigher(v, w) ==
  stats[v].sum[1] * stats[w].sum[2] * stats[w].count
    > stats[w].sum[1] * stats[v].sum[2] * stats[v].count

\* the proposers a table lists, in its order
Listed(table) == [k \in 1..Len(table) |-> table[k].valcons]

\* a table of proposers: no proposer twice, only proposers with at least 5
\* records, and the first 10 of them (all of them when there are fewer)
TopTen(order) ==
  /\ Len(order) = Min(10, Cardinality(Eligible))
  /\ \A k \in 1..Len(order) : order[k] \in Eligible
  /\ \A j, k \in 1..Len(order) : j < k => order[j] # order[k]

\* C18: once the final report is printed, both tables list only proposers
\* with at least 5 records, at most 10 each; the fail-rate table goes by
\* fail rate descending and, at equal fail rate, by average descending, and
\* no proposer left out of it ranks before a listed one; the average table
\* goes by average descending likewise; so whenever a proposer of the
\* fail-rate table has a strictly lower fail rate than another proposer with
\* at least 5 records, that other one is listed above it.
C18_FinalRanking ==
  (program = "diagnose" /\ pc = "reported") =>
    LET F == Listed(summary[Len(summary)].fail_table)
        A == Listed(summary[Len(summary)].avg_table)
        InF == { F[k] : k \in 1..Len(F) }
        InA == { A[k] : k \in 1..Len(A) }
    IN  /\ TopTen(F)
        /\ TopTen(A)
        /\ \A k \in 1..Len(F) :
             summary[Len(summary)].fail_table[k].n = stats[F[k]].count
        /\ \A j, k \in 1..Len(F) : j < k =>
             /\ ~RateHigher(F[k], F[j])
             /\ ~RateHigher(F[j], F[k]) => ~AvgHigher(F[k], F[j])
        /\ \A v \in Eligible \ InF : \A k \in 1..Len(F) :
             /\ ~RateHigher(v, F[k])
             /\ ~RateHigher(F[k], v) => ~AvgHigher(v, F[k])
        /\ \A j, k \in 1..Len(A) : j < k => ~AvgHigher(A[k], A[j])
        /\ \A v \in Eligible \ InA : \A k \in 1..Len(A) : ~AvgHigher(v, A[k])
        /\ \A v \in Eligible : \A k \in 1..Len(F) :
             RateHigher(v, F[k]) => \E j \in 1..(k - 1) : F[j] = v

\* a report over more than 10 proposers with at least 5 records and one
\* with fewer, whose fail-rate table has two rows of different fail rate and
\* two rows of equal fail rate and different average, inserted lower first
C18_Witness ==
  /\ program = "diagnose" /\ pc = "reported"
  /\ Cardinality(Eligible) > 10
  /\ Eligible # DOMAIN stats
  /\ LET F == Listed(summary[Len(summary)].fail_table)
     IN  /\ Len(F) = 10
         /\ \E j, k \in 1..10 : j < k /\ RateHigher(F[j], F[k])
         /\ \E j, k \in 1..10 :
              /\ j < k /\ ~RateHigher(F[j], F[k]) /\ ~RateHigher(F[k], F[j])
              /\ AvgHigher(F[j], F[k])
              /\ F[k][2] < F[j][2]

\* ---- C19 ----
\* the step records an observation: a line is printed for one height
RecordStep == Len(out') = Len(out) + 1

\* C19: over a whole session the heights of the recorded observations are
\* strictly increasing: every statistic changes only for a height above
\* every height recorded so far, in this tick or an earlier one, and each
\* recorded height is above the one recorded before it; last_height never
\* decreases; and a poll whose height is not above last_height records
\* nothing and leaves every statistic, the proposer table, last_height and
\* last_time as they were.
C19_StrictHeightOrder ==
  [][ /\ (statVars' # statVars) =>
           /\ pc \in {"loop", "block", "stats"}
           /\ max_recorded # None => last_height + i > max_recorded
      /\ RecordStep =>
           /\ out'[Len(out')] = last_height + i
           /\ max_recorded' = last_height + i
           /\ max_recorded # None => max_recorded' > max_recorded
           /\ \A k \in 1..Len(out) : out'[k] = out[k] /\ out[k] < out'[Len(out')]
      /\ ~RecordStep => max_recorded' = max_recorded
      /\ (pc' = "poll" /\ max_recorded' # None) => max_recorded' <= last_height'
      /\ last_height # None => (last_height' # None /\ last_height' >= last_height)
      /\ ( /\ pc = "poll" /\ pc' # "stopped" /\ status' = "ok"
           /\ last_height # None
           /\ height' <= last_height )
         => /\ UNCHANGED statVars
            /\ UNCHANGED << last_height, last_time >>
            /\ UNCHANGED << valcons_map, last_valset_height, stats_order >>
            /\ out' = <<>>
            /\ pc' = "poll"
    ]_vars

\* after at least three recorded observations, the last of them at
\* last_height, a poll has returned a height below last_height
C19_Witness ==
  /\ pc = "poll" /\ tick_kind = "idle" /\ status = "ok"
  /\ height < last_height
  /\ max_recorded = last_height
  /\ total_blocks >= 3
  /\ last_time # ts

\* ---- C20 ----
RECURSIVE ScopeSum(_, _, _)
\* the sum of one counter over the proposers in S
ScopeSum(st, S, field) ==
  IF S = {} THEN 0
  ELSE LET v == CHOOSE x \in S : TRUE
       IN  st[v][field] + ScopeSum(st, S \ {v}, field)

\* C20: between two ticks of diagnose_proposer.py the overall counters are
\* the sums of the per-proposer ones (total_blocks of count, fast_blocks of
\* fast, fail_blocks of fail), and total_blocks is last_height minus the
\* first height seen minus the heights of the advances dropped as clock
\* anomalies: never more than last_height minus the first height, and
\* equal to it when no advance was dropped.
C20_GlobalScopeConsistency ==
  (program = "diagnose" /\ pc = "poll") =>
    /\ total_blocks = ScopeSum(stats, DOMAIN stats, "count")
    /\ fast_blocks = ScopeSum(stats, DOMAIN stats, "fast")
    /\ fail_blocks = ScopeSum(stats, DOMAIN stats, "fail")
    /\ last_height = None => (total_blocks = 0 /\ baseline_height = None)
    /\ last_height # None =>
         /\ baseline_height # None
         /\ anomaly_heights >= 0
         /\ total_blocks = last_height - baseline_height - anomaly_heights
         /\ total_blocks <= last_height - baseline_height
         /\ anomaly_heights = 0 => total_blocks = last_height - baseline_height

\* between two ticks, with no advance dropped, observations of several
\* proposers have been recorded, fast ones and failed ones among them
C20_Witness ==
  /\ program = "diagnose" /\ pc = "poll"
  /\ anomaly_heights = 0
  /\ total_blocks = last_height - baseline_height
  /\ total_blocks >= 3
  /\ Cardinality(DOMAIN stats) >= 2
  /\ fast_blocks > 0 /\ fail_blocks > 0

=========================================================================
